---- MODULE Spec2Model ----
(***************************************************************************)
(* Model of SDK_DEMO_PROJECT/client.py: main() posts a task to the agent   *)
(* gateway, and on a 402 Payment Required answer it fabricates a payment   *)
(* proof and posts the same task once more with a PAYMENT-SIGNATURE        *)
(* header.  The gateway and the transport are the environment: every       *)
(* request is answered by a connection failure, by another transport       *)
(* exception, or by a response with some status code and some body text.   *)
(*                                                                         *)
(* Text is a sequence of one-character strings, so that slicing is real.   *)
(* A response body is a sequence of JSON tokens; response.json() is a      *)
(* recursive-descent parse of those tokens into tagged values.             *)
(***************************************************************************)
EXTENDS Integers, Sequences, FiniteSets, TLC

\* ------------------------------------------------------------------ bounds
\* The status codes the gateway may answer with: MinStatus..MaxStatus.
MinStatus == 100
MaxStatus == 599

\* --------------------------------------------------------------- constants
\* dummy_tx_hash = "0x" + "b" * 64
HashFill == 64
\* the [:10] slices of the recipient and of the hash
PrefixLen == 10
\* response.status_code == 402
PaymentRequired == 402
\* requests.Response.ok: no 4xx and no 5xx status
ErrLow == 400
ErrHigh == 600

GATEWAY_URL == "https://neural-grid-iota.vercel.app/api/agent/execute"
AGENT_ID == "atlas-ai"

\* ----------------------------------------------------------- python values
JNull == [t |-> "null"]
JNum(n) == [t |-> "num", n |-> n]
JStr(s) == [t |-> "str", s |-> s]
JArr(a) == [t |-> "arr", a |-> a]
JObj(o) == [t |-> "obj", o |-> o]

EmptyMap == [x \in {} |-> JNull]
Put(m, key, v) == [x \in (DOMAIN m) \cup {key} |-> IF x = key THEN v ELSE m[x]]

Min(a, b) == IF a < b THEN a ELSE b
Take(s, n) == SubSeq(s, 1, Min(n, Len(s)))

Val(v) == [ok |-> TRUE, v |-> v]
Exc(e) == [ok |-> FALSE, exc |-> e]

\* dict.get(key, default); any other JSON value has no attribute 'get'
Get(d, key, default) ==
  IF d.t = "obj"
  THEN Val(IF key \in DOMAIN d.o THEN d.o[key] ELSE default)
  ELSE Exc("AttributeError")

\* value[:n]; None, numbers and dicts cannot be sliced
Slice(v, n) ==
  CASE v.t = "str" -> Val(JStr(Take(v.s, n)))
    [] v.t = "arr" -> Val(JArr(Take(v.a, n)))
    [] OTHER -> Exc("TypeError")

\* ------------------------------------------------------------ JSON tokens
Tok(k) == [k |-> k]
TNum(n) == [k |-> "num", n |-> n]
TStr(s) == [k |-> "str", s |-> s]

PFail == [ok |-> FALSE]
POk(v, rest) == [ok |-> TRUE, v |-> v, rest |-> rest]

RECURSIVE ParseValue(_), ParseMembers(_, _), ParseElements(_, _)

ParseValue(toks) ==
  IF Len(toks) = 0 THEN PFail
  ELSE LET h == Head(toks)
           r == Tail(toks)
       IN CASE h.k = "null" -> POk(JNull, r)
            [] h.k = "num" -> POk(JNum(h.n), r)
            [] h.k = "str" -> POk(JStr(h.s), r)
            [] h.k = "{" -> IF Len(r) > 0 /\ Head(r).k = "}"
                            THEN POk(JObj(EmptyMap), Tail(r))
                            ELSE ParseMembers(r, EmptyMap)
            [] h.k = "[" -> IF Len(r) > 0 /\ Head(r).k = "]"
                            THEN POk(JArr(<<>>), Tail(r))
                            ELSE ParseElements(r, <<>>)
            [] OTHER -> PFail

ParseMembers(toks, acc) ==
  IF Len(toks) < 3 \/ toks[1].k # "str" \/ toks[2].k # ":" THEN PFail
  ELSE LET pv == ParseValue(SubSeq(toks, 3, Len(toks)))
       IN IF ~pv.ok \/ Len(pv.rest) = 0 THEN PFail
          ELSE LET acc2 == Put(acc, toks[1].s, pv.v)
                   sep == Head(pv.rest)
               IN CASE sep.k = "}" -> POk(JObj(acc2), Tail(pv.rest))
                    [] sep.k = "," -> ParseMembers(Tail(pv.rest), acc2)
                    [] OTHER -> PFail

ParseElements(toks, acc) ==
  LET pv == ParseValue(toks)
  IN IF ~pv.ok \/ Len(pv.rest) = 0 THEN PFail
     ELSE LET acc2 == Append(acc, pv.v)
              sep == Head(pv.rest)
          IN CASE sep.k = "]" -> POk(JArr(acc2), Tail(pv.rest))
               [] sep.k = "," -> ParseElements(Tail(pv.rest), acc2)
               [] OTHER -> PFail

\* Response.json(): the whole text must be one JSON document
Json(text) ==
  LET p == ParseValue(text)
  IN IF p.ok /\ Len(p.rest) = 0 THEN Val(p.v) ELSE Exc("JSONDecodeError")

\* Response.ok
Ok(status) == ~(ErrLow <= status /\ status < ErrHigh)

\* ------------------------------------------------------------------- text
K_amount == <<"a", "m", "o", "u", "n", "t">>
K_recipient == <<"r", "e", "c", "i", "p", "i", "e", "n", "t">>
K_result == <<"r", "e", "s", "u", "l", "t">>
K_response == <<"r", "e", "s", "p", "o", "n", "s", "e">>
Recipient == <<"0", "x", "A", "B", "C", "D", "E", "F", "1", "2", "3", "4", "5", "6", "7", "8", "9", "0">>
ShortRecipient == <<"0", "x", "A", "B">>
Hi == <<"h", "i">>

LB == Tok("{")
RB == Tok("}")
LS == Tok("[")
RS == Tok("]")
COLON == Tok(":")
COMMA == Tok(",")
NULL == Tok("null")

\* The body texts the gateway may answer with: not JSON at all, JSON of an
\* unexpected shape, payment challenges with and without their fields, and
\* results with and without result.response.
Bodies ==
  { <<>>,
    <<Tok("<html>")>>,
    <<LB, TStr(K_amount), COLON>>,
    <<LB, RB, RB>>,
    <<NULL>>,
    <<TStr(Hi)>>,
    <<LS, RS>>,
    <<LS, TNum(1), COMMA, TNum(2), RS>>,
    <<LB, RB>>,
    <<LB, TStr(K_amount), COLON, TNum(100), RB>>,
    <<LB, TStr(K_recipient), COLON, TStr(Recipient), RB>>,
    <<LB, TStr(K_amount), COLON, TNum(100), COMMA,
          TStr(K_recipient), COLON, TStr(Recipient), RB>>,
    <<LB, TStr(K_amount), COLON, TNum(100), COMMA,
          TStr(K_recipient), COLON, TStr(ShortRecipient), RB>>,
    <<LB, TStr(K_amount), COLON, TNum(100), COMMA,
          TStr(K_recipient), COLON, NULL, RB>>,
    <<LB, TStr(K_amount), COLON, TNum(100), COMMA,
          TStr(K_recipient), COLON, TNum(7), RB>>,
    <<LB, TStr(K_amount), COLON, TNum(100), COMMA,
          TStr(K_recipient), COLON, LS, TStr(Hi), RS, RB>>,
    <<LB, TStr(K_result), COLON, LB, TStr(K_response), COLON, TStr(Hi), RB, RB>>,
    <<LB, TStr(K_result), COLON, LB, TStr(K_response), COLON, NULL, RB, RB>>,
    <<LB, TStr(K_result), COLON, LB, RB, RB>>,
    <<LB, TStr(K_result), COLON, LB, TStr(K_amount), COLON, TNum(100), RB, RB>>,
    <<LB, TStr(K_result), COLON, TStr(Hi), RB>>,
    <<LB, TStr(K_result), COLON, NULL, RB>>,
    <<LB, TStr(K_result), COLON, LS, RS, RB>>,
    <<LB, TStr(K_response), COLON, TStr(Hi), RB>>,
    <<LB, TStr(K_recipient), COLON, TStr(Recipient), COMMA,
          TStr(K_result), COLON, LB, TStr(K_response), COLON, TStr(Hi), RB, RB>> }

Statuses == MinStatus..MaxStatus

\* What requests.post can do: return a response, raise ConnectionError, or
\* raise a RequestException that is not a ConnectionError.
Transport == {"response", "ConnectionError", "TooManyRedirects"}

\* ------------------------------------------------------------------ state
VARIABLES pc, payload, response, data, dummy_tx_hash, headers,
          final_response, result, stdout, wire, outcome, exc

vars == <<pc, payload, response, data, dummy_tx_hash, headers,
          final_response, result, stdout, wire, outcome, exc>>

\* a local that has not been assigned
Unset == [t |-> "unset"]

Line(n, args) == [line |-> n, args |-> args]

NoHeaders == [x \in {} |-> <<>>]

\* json.dumps of the task dict, as requests does for json=payload
Dumps(p) ==
  <<LB, TStr("agentId"), COLON, TStr(p.agentId), COMMA,
        TStr("taskType"), COLON, TStr(p.taskType), COMMA,
        TStr("parameters"), COLON,
        LB, TStr("prompt"), COLON, TStr(p.parameters.prompt), RB, RB>>

\* the request that requests.post(url, json=..., headers=...) puts on the wire
Post(url, json, hdrs) == [url |-> url, body |-> Dumps(json), headers |-> hdrs]

Init ==
  /\ pc = "start"
  /\ payload = Unset
  /\ response = Unset
  /\ data = Unset
  /\ dummy_tx_hash = Unset
  /\ headers = Unset
  /\ final_response = Unset
  /\ result = Unset
  /\ stdout = <<>>
  /\ wire = <<>>
  /\ outcome = "Running"
  /\ exc = "none"

\* Raise with an except clause that names Timeout instead of ConnectionError
RaiseCatchingTimeout(e, out) ==
  /\ pc' = "done"
  /\ exc' = e
  /\ IF e = "Timeout"
     THEN /\ outcome' = "ConnectionError"
          /\ stdout' = Append(out, Line(64, <<>>))
     ELSE /\ outcome' = "Fault"
          /\ stdout' = out

\* An exception raised inside the try block: the except clause catches
\* ConnectionError and nothing else; anything else leaves main() uncaught.
Raise(e, out) ==
  /\ pc' = "done"
  /\ exc' = e
  /\ IF e = "ConnectionError"
     THEN /\ outcome' = "ConnectionError"
          /\ stdout' = Append(out, Line(64, <<>>))
     ELSE /\ outcome' = "Fault"
          /\ stdout' = out

\* lines 10-21: banner and the task definition
DefineTask ==
  /\ pc = "start"
  /\ stdout' = stdout \o <<Line(10, <<>>), Line(11, <<>>), Line(12, <<>>)>>
  /\ payload' = [agentId |-> AGENT_ID,
                 taskType |-> "text-generation",
                 parameters |-> [prompt |->
                   "Explain the importance of autonomous agents in 3 bullet points."]]
  /\ pc' = "send"
  /\ UNCHANGED <<response, data, dummy_tx_hash, headers, final_response,
                 result, wire, outcome, exc>>

\* SendInitial with the first connection failure answered by sending again
SendInitialRetrying ==
  /\ pc = "send"
  /\ \E t \in Transport :
       /\ wire' = Append(wire, [request |-> Post(GATEWAY_URL, payload, NoHeaders),
                                answer |-> t])
       /\ IF t = "response"
          THEN /\ \E s \in Statuses, b \in Bodies :
                    response' = [status_code |-> s, text |-> b]
               /\ stdout' = Append(stdout, Line(25, <<>>))
               /\ pc' = "branch"
               /\ UNCHANGED <<outcome, exc>>
          ELSE IF t = "ConnectionError" /\ Len(wire) = 0
               THEN /\ stdout' = Append(stdout, Line(25, <<>>))
                    /\ UNCHANGED <<pc, response, outcome, exc>>
               ELSE /\ Raise(t, Append(stdout, Line(25, <<>>)))
                    /\ UNCHANGED response
  /\ UNCHANGED <<payload, data, dummy_tx_hash, headers, final_response, result>>

\* lines 25-26: the initial request
SendInitial ==
  /\ pc = "send"
  /\ \E t \in Transport :
       /\ wire' = Append(wire, [request |-> Post(GATEWAY_URL, payload, NoHeaders),
                                answer |-> t])
       /\ IF t = "response"
          THEN /\ \E s \in Statuses, b \in Bodies :
                    response' = [status_code |-> s, text |-> b]
               /\ stdout' = Append(stdout, Line(25, <<>>))
               /\ pc' = "branch"
               /\ UNCHANGED <<outcome, exc>>
          ELSE /\ Raise(t, Append(stdout, Line(25, <<>>)))
               /\ UNCHANGED response
  /\ UNCHANGED <<payload, data, dummy_tx_hash, headers, final_response, result>>

\* lines 29-33: the payment challenge
Handle402 ==
  /\ pc = "branch"
  /\ response.status_code = PaymentRequired
  /\ LET j == Json(response.text)
     IN IF ~j.ok
        THEN Raise(j.exc, stdout) /\ UNCHANGED data
        ELSE /\ data' = j.v
             /\ LET out1 == Append(stdout, Line(31, <<>>))
                    a == Get(j.v, K_amount, JNull)
                IN IF ~a.ok
                   THEN Raise(a.exc, out1)
                   ELSE LET out2 == Append(out1, Line(32, <<a.v>>))
                            r == Get(j.v, K_recipient, JNull)
                            s == Slice(r.v, PrefixLen)
                        IN IF ~s.ok
                           THEN Raise(s.exc, out2)
                           ELSE /\ stdout' = Append(out2, Line(33, <<s.v>>))
                                /\ pc' = "sign"
                                /\ UNCHANGED <<outcome, exc>>
  /\ UNCHANGED <<payload, response, dummy_tx_hash, headers, final_response,
                 result, wire>>

\* lines 36-44: the simulated signature and the payment header
SignTransaction ==
  /\ pc = "sign"
  /\ LET h == <<"0", "x">> \o [i \in 1..HashFill |-> "b"]
     IN /\ dummy_tx_hash' = h
        /\ headers' = ("PAYMENT-SIGNATURE" :> h)
        /\ stdout' = stdout \o <<Line(36, <<>>),
                                 Line(38, <<JStr(Take(h, PrefixLen))>>),
                                 Line(41, <<>>)>>
  /\ pc' = "retry"
  /\ UNCHANGED <<payload, response, data, final_response, result, wire,
                 outcome, exc>>

\* SendRetry with the task rebuilt for the paid call instead of reused
SendRetryRebuilt ==
  /\ pc = "retry"
  /\ \E t \in Transport :
       /\ wire' = Append(wire, [request |-> Post(GATEWAY_URL,
                                                 [payload EXCEPT !.taskType = "paid-generation"],
                                                 headers),
                                answer |-> t])
       /\ IF t = "response"
          THEN /\ \E s \in Statuses, b \in Bodies :
                    final_response' = [status_code |-> s, text |-> b]
               /\ pc' = "final"
               /\ UNCHANGED <<stdout, outcome, exc>>
          ELSE /\ Raise(t, stdout)
               /\ UNCHANGED final_response
  /\ UNCHANGED <<payload, response, data, dummy_tx_hash, headers, result>>

\* line 46: the retry with the payment header
SendRetry ==
  /\ pc = "retry"
  /\ \E t \in Transport :
       /\ wire' = Append(wire, [request |-> Post(GATEWAY_URL, payload, headers),
                                answer |-> t])
       /\ IF t = "response"
          THEN /\ \E s \in Statuses, b \in Bodies :
                    final_response' = [status_code |-> s, text |-> b]
               /\ pc' = "final"
               /\ UNCHANGED <<stdout, outcome, exc>>
          ELSE /\ Raise(t, stdout)
               /\ UNCHANGED final_response
  /\ UNCHANGED <<payload, response, data, dummy_tx_hash, headers, result>>

\* lines 48-56: the answer to the retry
HandleFinal ==
  /\ pc = "final"
  /\ IF Ok(final_response.status_code)
     THEN LET j == Json(final_response.text)
          IN IF ~j.ok
             THEN Raise(j.exc, stdout) /\ UNCHANGED result
             ELSE /\ result' = j.v
                  /\ LET out1 == stdout \o <<Line(50, <<>>), Line(51, <<>>),
                                             Line(52, <<>>)>>
                         g1 == Get(j.v, K_result, JObj(EmptyMap))
                     IN IF ~g1.ok
                        THEN Raise(g1.exc, out1)
                        ELSE LET g2 == Get(g1.v, K_response, j.v)
                             IN IF ~g2.ok
                                THEN Raise(g2.exc, out1)
                                ELSE /\ stdout' = out1 \o <<Line(53, <<g2.v>>),
                                                            Line(54, <<>>)>>
                                     /\ outcome' = "Success"
                                     /\ pc' = "done"
                                     /\ UNCHANGED exc
     ELSE /\ stdout' = Append(stdout,
                              Line(56, <<[t |-> "text", s |-> final_response.text]>>))
          /\ outcome' = "ExecutionError"
          /\ pc' = "done"
          /\ UNCHANGED <<result, exc>>
  /\ UNCHANGED <<payload, response, data, dummy_tx_hash, headers,
                 final_response, wire>>

\* lines 58-59: an initial answer that is ok and not 402
HandleOk ==
  /\ pc = "branch"
  /\ response.status_code # PaymentRequired
  /\ Ok(response.status_code)
  /\ LET j == Json(response.text)
     IN IF ~j.ok
        THEN Raise(j.exc, stdout)
        ELSE /\ stdout' = Append(stdout, Line(59, <<j.v>>))
             /\ outcome' = "Success"
             /\ pc' = "done"
             /\ UNCHANGED exc
  /\ UNCHANGED <<payload, response, data, dummy_tx_hash, headers,
                 final_response, result, wire>>

\* lines 60-61: any other initial answer
HandleUnexpected ==
  /\ pc = "branch"
  /\ response.status_code # PaymentRequired
  /\ ~Ok(response.status_code)
  /\ stdout' = Append(stdout, Line(61, <<JNum(response.status_code)>>))
  /\ outcome' = "UnexpectedStatusError"
  /\ pc' = "done"
  /\ UNCHANGED <<payload, response, data, dummy_tx_hash, headers,
                 final_response, result, wire, exc>>

Next ==
  \/ DefineTask
  \/ SendInitial
  \/ Handle402
  \/ SignTransaction
  \/ SendRetry
  \/ HandleFinal
  \/ HandleOk
  \/ HandleUnexpected

Spec == Init /\ [][Next]_vars

TypeOK ==
  /\ pc \in {"start", "send", "branch", "sign", "retry", "final", "done"}
  /\ outcome \in {"Running", "Success", "ConnectionError", "ExecutionError",
                  "UnexpectedStatusError", "Fault"}
  /\ Len(wire) <= 2

\* ----------------------------------------------------------- vocabulary
Done == pc = "done"
Answered == response # Unset
RetryAnswered == final_response # Unset
Is2xx(s) == 200 <= s /\ s < 300
Signed(req) == "PAYMENT-SIGNATURE" \in DOMAIN req.headers
Terminal == {"Success", "ConnectionError", "ExecutionError", "UnexpectedStatusError"}
LastLine == stdout[Len(stdout)]
AgentOutput == stdout[Len(stdout) - 1]

\* result.response when the body has it, the whole body otherwise
Expected(v) ==
  IF /\ v.t = "obj"
     /\ K_result \in DOMAIN v.o
     /\ v.o[K_result].t = "obj"
     /\ K_response \in DOMAIN v.o[K_result].o
  THEN v.o[K_result].o[K_response]
  ELSE v

\* a challenge object whose fields, where present, are of the documented kind
LenientChallenge(text) ==
  LET j == Json(text)
  IN /\ j.ok
     /\ j.v.t = "obj"
     /\ K_amount \in DOMAIN j.v.o => j.v.o[K_amount].t = "num"
     /\ K_recipient \in DOMAIN j.v.o => j.v.o[K_recipient].t = "str"

\* C1: when the initial POST is answered 402 and the retry is answered 2xx,
\* exactly two requests were issued, the second only after the 402 answer and
\* carrying PAYMENT-SIGNATURE, and the run ends in Success.
C1_TwoRequestsThenSuccess ==
  /\ Len(wire) >= 2 => Answered /\ response.status_code = PaymentRequired
  /\ (Done /\ Answered /\ response.status_code = PaymentRequired
        /\ RetryAnswered /\ Is2xx(final_response.status_code))
     => /\ Len(wire) = 2
        /\ Signed(wire[2].request)
        /\ outcome = "Success"

\* C2: a 402 challenge that is a JSON object with amount and/or recipient
\* missing does not crash the flow: the proof is made and the retry issued.
C2_MissingFieldsTolerated ==
  (Done /\ Answered /\ response.status_code = PaymentRequired
     /\ LenientChallenge(response.text))
  => Len(wire) = 2

\* C3: every invocation ends in Success, ConnectionError, ExecutionError or
\* UnexpectedStatusError; nothing leaves main() as an uncaught fault.
C3_FourTerminalStates ==
  Done => outcome \in Terminal /\ exc \in {"none", "ConnectionError"}

\* C4: an initial status that is neither 402 nor 2xx ends in
\* UnexpectedStatusError carrying the status, with no second request.
C4_Non2xxIsUnexpected ==
  (Done /\ Answered /\ response.status_code # PaymentRequired
     /\ ~Is2xx(response.status_code))
  => /\ outcome = "UnexpectedStatusError"
     /\ LastLine.line = 61
     /\ LastLine.args = <<JNum(response.status_code)>>
     /\ Len(wire) = 1

\* C5: 402 followed by a retry answer that is not 2xx ends in ExecutionError
\* carrying the retry's raw text, and there is never a third request.
C5_FailedRetryIsExecutionError ==
  /\ Len(wire) <= 2
  /\ (Done /\ Answered /\ response.status_code = PaymentRequired
        /\ RetryAnswered /\ ~Is2xx(final_response.status_code))
     => /\ outcome = "ExecutionError"
        /\ LastLine.line = 56
        /\ LastLine.args = <<[t |-> "text", s |-> final_response.text]>>
        /\ Len(wire) = 2

\* C6: an initial 2xx answer is returned as its parsed JSON body, with exactly
\* one request on the wire and no PAYMENT-SIGNATURE header on it.
C6_DirectSuccess ==
  (Done /\ Answered /\ Is2xx(response.status_code))
  => /\ Len(wire) = 1
     /\ ~Signed(wire[1].request)
     /\ outcome = "Success"
     /\ Json(response.text).ok
     /\ LastLine.line = 59
     /\ LastLine.args = <<Json(response.text).v>>

\* C7: when the first request fails to connect, the invocation ends in
\* ConnectionError and that request is the only one ever issued.
C7_ConnectionErrorNoRetry ==
  (Len(wire) >= 1 /\ wire[1].answer = "ConnectionError")
  => /\ Done
     /\ outcome = "ConnectionError"
     /\ Len(wire) = 1
     /\ LastLine.line = 64

C7_Witness ==
  /\ Done
  /\ Len(wire) = 1
  /\ wire[1].answer = "ConnectionError"
  /\ outcome = "ConnectionError"

\* C8: for a parsable 2xx retry body the result is result.response when
\* present and the whole parsed body otherwise, also when result is absent,
\* has no response field, or is not an object.
C8_NestedResultOrWholeBody ==
  (Done /\ Answered /\ response.status_code = PaymentRequired
     /\ RetryAnswered /\ Is2xx(final_response.status_code)
     /\ Json(final_response.text).ok)
  => /\ outcome = "Success"
     /\ AgentOutput.line = 53
     /\ AgentOutput.args = <<Expected(Json(final_response.text).v)>>

\* C9: the initial request carries no PAYMENT-SIGNATURE header, and the retry
\* goes to the same URL with the same body and the same headers plus
\* PAYMENT-SIGNATURE; the task dict still serialises to the body first sent.
C9_RetryDiffersOnlyByHeader ==
  /\ Len(wire) >= 1
     => /\ ~Signed(wire[1].request)
        /\ wire[1].request.url = GATEWAY_URL
        /\ wire[1].request.body = Dumps(payload)
  /\ Len(wire) >= 2
     => /\ wire[2].request.url = wire[1].request.url
        /\ wire[2].request.body = wire[1].request.body
        /\ DOMAIN wire[2].request.headers
             = DOMAIN wire[1].request.headers \cup {"PAYMENT-SIGNATURE"}
        /\ \A h \in DOMAIN wire[1].request.headers :
             wire[2].request.headers[h] = wire[1].request.headers[h]
        /\ wire[2].request.headers["PAYMENT-SIGNATURE"] = dummy_tx_hash

C9_Witness ==
  /\ Len(wire) = 2
  /\ Signed(wire[2].request)
  /\ response.status_code = PaymentRequired
  /\ K_amount \notin DOMAIN data.o

\* C10: when the initial answer is 402 and the retry fails to connect, the
\* invocation ends in ConnectionError with exactly two requests attempted.
C10_RetryConnectionError ==
  (Len(wire) >= 2 /\ wire[2].answer = "ConnectionError")
  => /\ Answered
     /\ response.status_code = PaymentRequired
     /\ Done
     /\ outcome = "ConnectionError"
     /\ LastLine.line = 64
     /\ Len(wire) = 2

C10_Witness ==
  /\ Done
  /\ Len(wire) = 2
  /\ wire[1].answer = "response"
  /\ wire[2].answer = "ConnectionError"
  /\ outcome = "ConnectionError"
====
